---------------------------- MODULE Spec2Model ----------------------------
(***************************************************************************)
(* A model of src/main.py: the Spotify artist explorer.                    *)
(*                                                                         *)
(*   Spec        the application: token acquisition, artist search, the    *)
(*               artist detail view with its two background fetches, the   *)
(*               Tk event queue that carries the workers' callbacks.       *)
(*   RenderSpec  the rendering of one search response, over every list of  *)
(*               at most SearchLimit artists of the pool.                  *)
(*   PlayerSpec  PreviewPlayer: play_from_url's worker threads against     *)
(*               stop() and the audio engine.                              *)
(*                                                                         *)
(* Text is modelled as a tuple of its pieces, so that an f-string or a     *)
(* join is a computation and not the identity.                             *)
(***************************************************************************)
EXTENDS Integers, Sequences, FiniteSets, TLC

VARIABLES
    CLIENT_ID,        \* os.getenv("CLIENT_ID"): None, "" or a value
    CLIENT_SECRET,    \* os.getenv("CLIENT_SECRET")
    phase,            \* "init": SpotifyApp.__init__ has not acquired the token yet; "running"
    token,            \* SpotifyApp.token
    current_artist,   \* SpotifyApp.current_artist
    scroll,           \* the children of SpotifyApp.scroll, in creation order
    threads,          \* the catalog worker threads that have not returned yet
    afterQueue,       \* callbacks handed to self.after(0, ...), not yet run
    dialogs,          \* the modal dialogs opened so far: [title, msg, thread]
    callbackErrors,   \* exceptions raised inside callbacks (Tk reports and goes on)
    getTokenCalls,    \* history: calls of get_token
    tokenPosts,       \* history: POSTs sent to the token endpoint
    catalogGets,      \* history: GETs sent to the catalog API
    searches,         \* history: calls of on_search
    loads,            \* history: calls of _load_artist
    lastAction,       \* history: the user's latest search or artist opening
    regionOwner,      \* history: the action whose outcome the region shows
    authFailedAt,     \* history: on_search calls made when the catalog first answered 401 (-1: never)
    initialized,      \* PreviewPlayer.initialized
    current_file,     \* PreviewPlayer.current_file
    is_playing,       \* PreviewPlayer.is_playing
    mixer,            \* the audio engine: [ready, loaded, busy]
    tmpFiles,         \* the temporary files on disk
    players,          \* play_from_url's worker threads, by order of issue
    uiPc,             \* where the UI thread is inside PreviewPlayer.stop
    lastStop          \* history: plays issued when stop() last returned on an initialized player

appVars == <<CLIENT_ID, CLIENT_SECRET, phase, token, current_artist, scroll, threads, afterQueue, callbackErrors, getTokenCalls, tokenPosts, catalogGets, searches, loads, lastAction, regionOwner, authFailedAt>>

playerVars == <<initialized, current_file, is_playing, mixer, tmpFiles, players, uiPc, lastStop>>

vars == <<appVars, dialogs, playerVars>>

---------------------------------------------------------------------------
(* Bounds *)

\* on_search and _load_artist calls in one run
MaxActions == 3

\* play_from_url calls in one run
MaxPlays == 2

(* Program constants *)

SearchLimit == 5

TopTracksLimit == 10

None == "None"

---------------------------------------------------------------------------
(* Python helpers *)

\* Truth value of a str-or-None: `not x` is true of None and of "".
Falsy(x) == x = None \/ x = ""

\* dict.get(key, default)
Get(d, key, default) == IF key \in DOMAIN d THEN d[key] ELSE default

Min(a, b) == IF a < b THEN a ELSE b

\* seq[:n]
Take(s, n) == SubSeq(s, 1, Min(n, Len(s)))

RECURSIVE Join(_, _)
\* sep.join(parts), as the tuple of its pieces
Join(parts, sep) ==
    IF Len(parts) = 0 THEN <<>>
    ELSE IF Len(parts) = 1 THEN <<parts[1]>>
    ELSE <<parts[1], sep>> \o Join(Tail(parts), sep)

\* `text or "N/A"`: the empty string is falsy
OrNA(text) == IF text = <<>> THEN <<"N/A">> ELSE text

RECURSIVE LStrip(_)
LStrip(s) == IF s # <<>> /\ Head(s) = " " THEN LStrip(Tail(s)) ELSE s

RECURSIVE RStrip(_)
RStrip(s) == IF s # <<>> /\ s[Len(s)] = " " THEN RStrip(SubSeq(s, 1, Len(s) - 1)) ELSE s

\* str.strip() on a string given as its characters
Strip(s) == RStrip(LStrip(s))

---------------------------------------------------------------------------
(* The remote API, as the set of answers it can give *)

CredentialValues == {None, "", "set"}

\* POST /api/token: 200 with an access_token, or a refusal
TokenResponses == {[status |-> 200, access_token |-> "t1"], [status |-> 200, access_token |-> "t2"], [status |-> 401, access_token |-> None]}

Adele == [id |-> "X", name |-> "Adele", popularity |-> "90", followers |-> [total |-> 7], genres |-> <<"pop", "soul", "uk", "r&b">>, external_urls |-> [spotify |-> "http://x"]]

Trio == [id |-> "W", name |-> "Trio", followers |-> [total |-> 0], genres |-> <<"jazz", "bop", "cool">>]

Zed == [id |-> "Z", name |-> "Zed", followers |-> [href |-> None], genres |-> <<"edm">>]

Bare == [id |-> "Y"]

ArtistPool == {Adele, Trio, Zed, Bare}

ArtistLists(n) == UNION {[1..k -> ArtistPool] : k \in 0..n}

Ok(items) == [status |-> 200, items |-> items]

Refused(status) == [status |-> status, items |-> <<>>]

\* GET /v1/search answers used by Spec (RenderSpec draws from ArtistLists)
SearchResponses == {Ok(<<>>), Ok(<<Bare, Adele>>), Refused(401), Refused(500)}

Track(i) == IF i % 3 = 1 THEN [name |-> "song", preview_url |-> "u1"] ELSE IF i % 3 = 2 THEN [name |-> "tune", preview_url |-> "u2"] ELSE [name |-> "demo"]

Album(i) == [name |-> "album", release_date |-> "2015"]

TrackItems(n) == [i \in 1..n |-> Track(i)]

AlbumItems(n) == [i \in 1..n |-> Album(i)]

TracksResponses == {Ok(TrackItems(0)), Ok(TrackItems(TopTracksLimit + 1)), Refused(500)}

AlbumsResponses == {Ok(AlbumItems(0)), Ok(AlbumItems(1)), Refused(401)}

\* What the user can have typed into the search entry
EntryTexts == {<<>>, <<" ">>, <<" ", "a", " ">>, <<"b">>}

---------------------------------------------------------------------------
(* Token Provider and Catalog Client *)

\* f"[{resp.status_code}]": the status code as text
StatusText(status) == IF status = 200 THEN "200" ELSE IF status = 401 THEN "401" ELSE "500"

CredentialsMissing_NoneOnly(id, secret) == id = None \/ secret = None

\* get_token's guard: `not CLIENT_ID or not CLIENT_SECRET`
CredentialsMissing(id, secret) == Falsy(id) \/ Falsy(secret)

\* get_token(): raises before the POST when a credential is missing, raises
\* after it on a non-200 answer, otherwise returns the access_token.
get_token(resp) ==
    IF CredentialsMissing(CLIENT_ID, CLIENT_SECRET)
    THEN [raised |-> TRUE, posted |-> FALSE, value |-> None, err |-> <<"Missing CLIENT_ID or CLIENT_SECRET in .env">>]
    ELSE IF resp.status # 200
    THEN [raised |-> TRUE, posted |-> TRUE, value |-> None, err |-> <<"Token error", StatusText(resp.status)>>]
    ELSE [raised |-> FALSE, posted |-> TRUE, value |-> resp.access_token, err |-> <<>>]

\* search_artists / get_artist_top_tracks / get_artist_albums: one GET,
\* RuntimeError on a non-200 answer, otherwise the item list.
CatalogErrorName(kind) ==
    IF kind = "search" THEN "Search error" ELSE IF kind = "tracks" THEN "Top tracks error" ELSE "Albums error"

catalog_get(kind, resp) ==
    IF resp.status # 200
    THEN [raised |-> TRUE, items |-> <<>>, err |-> <<CatalogErrorName(kind), StatusText(resp.status)>>]
    ELSE [raised |-> FALSE, items |-> resp.items, err |-> <<>>]

Responses(kind) ==
    IF kind = "search" THEN SearchResponses ELSE IF kind = "tracks" THEN TracksResponses ELSE AlbumsResponses

---------------------------------------------------------------------------
(* Widgets *)

Label(text, color) == [w |-> "label", text |-> text, color |-> color]

\* messagebox.showerror / showinfo, with the thread that called it
Dialog(title, msg, thread) == [title |-> title, msg |-> msg, thread |-> thread]

\* _clear_results(): every child of the region is destroyed
clear_results == <<>>

Tip == <<Label(<<"Search for an artist to see results here.">>, "default")>>

---------------------------------------------------------------------------
(* Presentation Layer: pure rendering *)

GenresShown_All(a) == OrNA(Join(Get(a, "genres", <<>>), ", "))

\* `", ".join(a.get("genres", [])[:3]) or "N/A"`
GenresShown(a) == OrNA(Join(Take(Get(a, "genres", <<>>), 3), ", "))

\* One row of _render_artist_choices: the info label and the Open button,
\* whose command is bound to the artist object itself.
ArtistRow(a) ==
    [w |-> "row",
     name |-> Get(a, "name", "Unknown"),
     followers |-> Get(Get(a, "followers", <<>>), "total", 0),
     genres |-> GenresShown(a),
     opens |-> a]

\* _render_artist_choices(artists): the region's children after it
render_artist_choices(artists) ==
    IF artists = <<>>
    THEN <<Label(<<"No artists found.">>, "orange")>>
    ELSE <<Label(<<"Select an artist:">>, "default")>> \o [i \in 1..Len(artists) |-> ArtistRow(artists[i])]

\* The inline error of on_search's worker: err is formatted inside the
\* except block, so the callback carries the finished text.
SearchErrorText(e) == <<"Search failed: ">> \o e

\* One row of _populate_tracks.  plays is the url the preview button plays,
\* None for the disabled "No Preview" button of a track without a truthy
\* preview_url.
TrackRow(i, t) ==
    [w |-> "trackrow", index |-> i, name |-> Get(t, "name", "Unknown"), plays |-> (IF Falsy(Get(t, "preview_url", None)) THEN None ELSE t.preview_url)]

\* _populate_tracks(parent, tracks): the list frame's children after it
populate_tracks(tracks) ==
    IF tracks = <<>>
    THEN <<Label(<<"No tracks found.">>, "orange")>>
    ELSE [i \in 1..Len(tracks) |-> TrackRow(i, tracks[i])]

AlbumRow(i, a) ==
    [w |-> "albumrow", index |-> i, name |-> Get(a, "name", "Unknown"), date |-> Get(a, "release_date", "N/A")]

\* _populate_albums(parent, albums)
populate_albums(albums) ==
    IF albums = <<>>
    THEN <<Label(<<"No albums found.">>, "orange")>>
    ELSE [i \in 1..Len(albums) |-> AlbumRow(i, albums[i])]

LoadingText(kind) == IF kind = "tracks" THEN <<"Loading top tracks...">> ELSE <<"Loading albums...">>

FailedText(kind) == IF kind = "tracks" THEN <<"Failed to load top tracks: ">> ELSE <<"Failed to load albums: ">>

LoadingLabel(kind) == Label(LoadingText(kind), "default")

\* _render_top_tracks_section / _render_albums_section: the section frame,
\* whose list frame starts with the loading label.  gen names the frame.
Section(kind, gen) == [w |-> "section", kind |-> kind, gen |-> gen, list |-> <<LoadingLabel(kind)>>]

\* The header frame of _load_artist
Header(a) ==
    [w |-> "header",
     name |-> Get(a, "name", "Unknown"),
     popularity |-> Get(a, "popularity", "N/A"),
     genres |-> OrNA(Join(Get(a, "genres", <<>>), ", ")),
     url |-> Get(Get(a, "external_urls", <<>>), "spotify", "")]

IsSection(wd, kind, gen) == wd.w = "section" /\ wd.kind = kind /\ wd.gen = gen

\* Whether the list frame (kind, gen) still exists
FrameAlive(kind, gen) == \E i \in 1..Len(scroll) : IsSection(scroll[i], kind, gen)

\* The children of the list frame (kind, gen)
FrameList(kind, gen) == (CHOOSE wd \in {scroll[i] : i \in 1..Len(scroll)} : IsSection(wd, kind, gen)).list

\* The region with the children of list frame (kind, gen) replaced
WithFrameList(kind, gen, children) ==
    [i \in 1..Len(scroll) |-> IF IsSection(scroll[i], kind, gen) THEN [scroll[i] EXCEPT !.list = children] ELSE scroll[i]]

\* widget.destroy() on one child of a list
Without(children, wd) == SelectSeq(children, LAMBDA c : c # wd)

---------------------------------------------------------------------------
(* SpotifyApp: the handlers, on the UI thread *)

\* messagebox.showerror("Auth Error", str(e))
AuthDialog(e) == Dialog("Auth Error", e, "ui")

\* SpotifyApp.__init__, "Get token early": one get_token call; on failure
\* a modal dialog and the token stays None.
AppInit ==
    /\ phase = "init"
    /\ phase' = "running"
    /\ \E resp \in TokenResponses :
        LET r == get_token(resp) IN
        /\ token' = (IF r.raised THEN token ELSE r.value)
        /\ dialogs' = (IF r.raised THEN dialogs \cup {AuthDialog(r.err)} ELSE dialogs)
        /\ getTokenCalls' = getTokenCalls + 1
        /\ tokenPosts' = tokenPosts + (IF r.posted THEN 1 ELSE 0)
    /\ UNCHANGED <<CLIENT_ID, CLIENT_SECRET, current_artist, scroll, threads, afterQueue, callbackErrors, catalogGets, searches, loads, lastAction, regionOwner, authFailedAt, playerVars>>

NeedsToken_Always(tok) == TRUE

\* on_search's guard `if not self.token`
NeedsToken(tok) == Falsy(tok)

SearchThread(gen, name) == [kind |-> "search", gen |-> gen, arg |-> name, pc |-> "fetch", e |-> <<>>]

\* The tail of on_search: clear the region, show the loading label, start
\* the worker thread.
StartSearch(name) ==
    /\ scroll' = clear_results \o <<Label(<<"Searching...">>, "default")>>
    /\ threads' = threads \cup {SearchThread(searches + 1, name)}
    /\ lastAction' = [kind |-> "search", gen |-> searches + 1]
    /\ regionOwner' = [kind |-> "search", gen |-> searches + 1]

\* on_search(): text is the content of the search entry.
on_search(text) ==
    /\ phase = "running"
    /\ searches + loads < MaxActions
    /\ searches' = searches + 1
    /\ LET name == Strip(text) IN
       IF name = <<>>
       THEN /\ dialogs' = dialogs \cup {Dialog("Info", <<"Please enter an artist name.">>, "ui")}
            /\ UNCHANGED <<token, getTokenCalls, tokenPosts, scroll, threads, lastAction, regionOwner>>
       ELSE IF NeedsToken(token)
       THEN \E resp \in TokenResponses :
                LET r == get_token(resp) IN
                /\ getTokenCalls' = getTokenCalls + 1
                /\ tokenPosts' = tokenPosts + (IF r.posted THEN 1 ELSE 0)
                /\ IF r.raised
                   THEN /\ dialogs' = dialogs \cup {AuthDialog(r.err)}
                        /\ UNCHANGED <<token, scroll, threads, lastAction, regionOwner>>
                   ELSE /\ token' = r.value
                        /\ StartSearch(name)
                        /\ UNCHANGED dialogs
       ELSE /\ StartSearch(name)
            /\ UNCHANGED <<token, getTokenCalls, tokenPosts, dialogs>>
    /\ UNCHANGED <<CLIENT_ID, CLIENT_SECRET, phase, current_artist, afterQueue, callbackErrors, catalogGets, loads, authFailedAt, playerVars>>

FetchThread(kind, gen, artist_id) == [kind |-> kind, gen |-> gen, arg |-> <<artist_id>>, pc |-> "fetch", e |-> <<>>]

\* _load_artist(artist_obj): the artist in hand is rendered without a
\* request; each of the two sections starts its own worker thread.
load_artist(artist_obj) ==
    /\ current_artist' = artist_obj
    /\ loads' = loads + 1
    /\ scroll' = clear_results \o <<Header(artist_obj), Label(<<"">>, "default"), Section("tracks", loads + 1), Section("albums", loads + 1)>>
    /\ threads' = threads \cup {FetchThread("tracks", loads + 1, artist_obj.id), FetchThread("albums", loads + 1, artist_obj.id)}
    /\ lastAction' = [kind |-> "load", gen |-> loads + 1]
    /\ regionOwner' = [kind |-> "load", gen |-> loads + 1]

\* The user presses the Open button of the row at position i of the region.
OpenArtist(i) ==
    /\ phase = "running"
    /\ searches + loads < MaxActions
    /\ i \in 1..Len(scroll)
    /\ scroll[i].w = "row"
    /\ load_artist(scroll[i].opens)
    /\ UNCHANGED <<CLIENT_ID, CLIENT_SECRET, phase, token, afterQueue, dialogs, callbackErrors, getTokenCalls, tokenPosts, catalogGets, searches, authFailedAt, playerVars>>

---------------------------------------------------------------------------
(* The catalog worker threads *)

Callback(cb, t, data) == [cb |-> cb, kind |-> t.kind, gen |-> t.gen, data |-> data]

\* The items a worker hands to its success callback: the top tracks are cut
\* to the first ten.
Delivered(kind, items) == IF kind = "tracks" THEN Take(items, TopTracksLimit) ELSE items

\* worker(): the blocking request, then self.after(0, callback).  On success
\* the worker returns.  On failure the search worker formats err and
\* returns; the tracks and albums workers schedule a lambda that reads the
\* exception variable e, and are then still inside the except block.
WorkerFetch(t, resps) ==
    /\ t \in threads
    /\ t.pc = "fetch"
    /\ catalogGets' = catalogGets + 1
    /\ \E resp \in resps :
        LET r == catalog_get(t.kind, resp) IN
        /\ authFailedAt' = (IF resp.status = 401 /\ authFailedAt = -1 THEN searches ELSE authFailedAt)
        /\ IF ~r.raised
           THEN /\ afterQueue' = Append(afterQueue, Callback(IF t.kind = "search" THEN "render" ELSE "populate", t, Delivered(t.kind, r.items)))
                /\ threads' = threads \ {t}
           ELSE IF t.kind = "search"
           THEN /\ afterQueue' = Append(afterQueue, Callback("search_error", t, SearchErrorText(r.err)))
                /\ threads' = threads \ {t}
           ELSE /\ afterQueue' = Append(afterQueue, Callback("fetch_error", t, <<>>))
                /\ threads' = (threads \ {t}) \cup {[t EXCEPT !.pc = "except", !.e = r.err]}
    /\ UNCHANGED <<CLIENT_ID, CLIENT_SECRET, phase, token, current_artist, scroll, dialogs, callbackErrors, getTokenCalls, tokenPosts, searches, loads, lastAction, regionOwner, playerVars>>

\* The end of `except Exception as e:`: e is unbound and the worker returns.
WorkerLeaveExcept(t) ==
    /\ t \in threads
    /\ t.pc = "except"
    /\ threads' = threads \ {t}
    /\ UNCHANGED <<CLIENT_ID, CLIENT_SECRET, phase, token, current_artist, scroll, afterQueue, dialogs, callbackErrors, getTokenCalls, tokenPosts, catalogGets, searches, loads, lastAction, regionOwner, authFailedAt, playerVars>>

---------------------------------------------------------------------------
(* The callbacks, run by the UI thread from the event queue *)

SearchCallbackRegion_Guarded(cb) ==
    IF lastAction # [kind |-> "search", gen |-> cb.gen] THEN scroll
    ELSE IF cb.cb = "render" THEN render_artist_choices(cb.data)
    ELSE clear_results \o <<Label(cb.data, "red")>>

\* The region after a search worker's callback: _render_artist_choices, or
\* the lambda that clears the region and adds the red label.
SearchCallbackRegion(cb) ==
    IF cb.cb = "render" THEN render_artist_choices(cb.data)
    ELSE clear_results \o <<Label(cb.data, "red")>>

RunSearchCallback(cb) ==
    /\ scroll' = SearchCallbackRegion(cb)
    /\ regionOwner' = [kind |-> "search", gen |-> cb.gen]
    /\ UNCHANGED callbackErrors

\* lambda: self._populate_tracks(list_frame, tracks) and its albums twin.
\* winfo_children() of a destroyed frame raises TclError.
RunPopulate(cb) ==
    /\ IF FrameAlive(cb.kind, cb.gen)
       THEN /\ scroll' = WithFrameList(cb.kind, cb.gen, IF cb.kind = "tracks" THEN populate_tracks(cb.data) ELSE populate_albums(cb.data))
            /\ UNCHANGED callbackErrors
       ELSE /\ callbackErrors' = callbackErrors \cup {"TclError"}
            /\ UNCHANGED scroll
    /\ UNCHANGED regionOwner

\* Whether the worker of (kind, gen) is still inside its except block, so
\* that its variable e is bound.
ExceptionBound(kind, gen) == \E t \in threads : t.kind = kind /\ t.gen = gen /\ t.pc = "except"

ExceptionText(kind, gen) == (CHOOSE t \in threads : t.kind = kind /\ t.gen = gen /\ t.pc = "except").e

\* lambda: (loading.destroy(), ctk.CTkLabel(list_frame, text=f"...{e}", ...).grid(...))
\* The tuple is evaluated left to right: the loading label is destroyed,
\* then the f-string reads e (NameError once the worker has left its except
\* block), then the label is created (TclError in a destroyed frame).
RunFetchError(cb) ==
    LET alive == FrameAlive(cb.kind, cb.gen)
        destroyed == IF alive THEN Without(FrameList(cb.kind, cb.gen), LoadingLabel(cb.kind)) ELSE <<>>
    IN
    /\ IF ~ExceptionBound(cb.kind, cb.gen)
       THEN /\ callbackErrors' = callbackErrors \cup {"NameError"}
            /\ scroll' = (IF alive THEN WithFrameList(cb.kind, cb.gen, destroyed) ELSE scroll)
       ELSE IF ~alive
       THEN /\ callbackErrors' = callbackErrors \cup {"TclError"}
            /\ UNCHANGED scroll
       ELSE /\ scroll' = WithFrameList(cb.kind, cb.gen, Append(destroyed, Label(FailedText(cb.kind) \o ExceptionText(cb.kind, cb.gen), "red")))
            /\ UNCHANGED callbackErrors
    /\ UNCHANGED regionOwner

\* The event loop runs the oldest scheduled callback.
RunCallback ==
    /\ afterQueue # <<>>
    /\ afterQueue' = Tail(afterQueue)
    /\ LET cb == Head(afterQueue) IN
       IF cb.kind = "search" THEN RunSearchCallback(cb)
       ELSE IF cb.cb = "populate" THEN RunPopulate(cb)
       ELSE RunFetchError(cb)
    /\ UNCHANGED <<CLIENT_ID, CLIENT_SECRET, phase, token, current_artist, threads, dialogs, getTokenCalls, tokenPosts, catalogGets, searches, loads, lastAction, authFailedAt, playerVars>>

---------------------------------------------------------------------------
(* PreviewPlayer *)

\* tempfile.NamedTemporaryFile(delete=False, suffix=".mp3"): a fresh name
\* for every call
TmpName(i) == <<"tmp1.mp3", "tmp2.mp3", "tmp3.mp3", "tmp4.mp3">>[i]

Running(i) == players[i].pc \notin {"done", "failed"}

At(i, pc) == i \in 1..Len(players) /\ players[i].pc = pc

Goto(i, pc) == players' = [players EXCEPT ![i].pc = pc]

\* The urls of the enabled preview buttons now in the region
PreviewButtons ==
    {r.plays : r \in UNION {{scroll[i].list[j] : j \in 1..Len(scroll[i].list)} : i \in {k \in 1..Len(scroll) : scroll[k].w = "section" /\ scroll[k].kind = "tracks"}}} \ {None}

\* _safe_play_preview(url) -> play_from_url(url, on_error): starts a worker
\* thread and returns.  overlap records that an earlier worker is unfinished.
safe_play_preview(url) ==
    /\ uiPc = "idle"
    /\ Len(players) < MaxPlays
    /\ url \in PreviewButtons
    /\ players' = Append(players, [url |-> url, pc |-> "ensure_init", overlap |-> \E i \in 1..Len(players) : Running(i)])
    /\ UNCHANGED <<appVars, dialogs, initialized, current_file, is_playing, mixer, tmpFiles, uiPc, lastStop>>

\* _ensure_init: `if not self.initialized`
EnsureInit(i) ==
    /\ At(i, "ensure_init")
    /\ Goto(i, IF initialized THEN "download" ELSE "mixer_init")
    /\ UNCHANGED <<appVars, dialogs, initialized, current_file, is_playing, mixer, tmpFiles, uiPc, lastStop>>

\* pygame.mixer.init()
MixerInit(i) ==
    /\ At(i, "mixer_init")
    /\ mixer' = [mixer EXCEPT !.ready = TRUE]
    /\ Goto(i, "set_initialized")
    /\ UNCHANGED <<appVars, dialogs, initialized, current_file, is_playing, tmpFiles, uiPc, lastStop>>

\* self.initialized = True
SetInitialized(i) ==
    /\ At(i, "set_initialized")
    /\ initialized' = TRUE
    /\ Goto(i, "download")
    /\ UNCHANGED <<appVars, dialogs, current_file, is_playing, mixer, tmpFiles, uiPc, lastStop>>

\* r = get(url, timeout=20); a status other than 200 raises
Download(i) ==
    /\ At(i, "download")
    /\ \E status \in {200, 500} : Goto(i, IF status = 200 THEN "save" ELSE "except")
    /\ UNCHANGED <<appVars, dialogs, initialized, current_file, is_playing, mixer, tmpFiles, uiPc, lastStop>>

\* The temporary file is written and closed; nothing ever deletes it.
SaveTmp(i) ==
    /\ At(i, "save")
    /\ tmpFiles' = tmpFiles \cup {[name |-> TmpName(i), content |-> players[i].url]}
    /\ Goto(i, "assign")
    /\ UNCHANGED <<appVars, dialogs, initialized, current_file, is_playing, mixer, uiPc, lastStop>>

\* self.current_file = tmp.name
AssignCurrent(i) ==
    /\ At(i, "assign")
    /\ current_file' = TmpName(i)
    /\ Goto(i, "load")
    /\ UNCHANGED <<appVars, dialogs, initialized, is_playing, mixer, tmpFiles, uiPc, lastStop>>

\* pygame.mixer.music.load(self.current_file): reads the shared field; a
\* stream that is playing is stopped.
MusicLoad(i) ==
    /\ At(i, "load")
    /\ mixer' = [mixer EXCEPT !.loaded = current_file, !.busy = FALSE]
    /\ Goto(i, "play")
    /\ UNCHANGED <<appVars, dialogs, initialized, current_file, is_playing, tmpFiles, uiPc, lastStop>>

\* pygame.mixer.music.play(): plays whatever is loaded
MusicPlay(i) ==
    /\ At(i, "play")
    /\ mixer' = [mixer EXCEPT !.busy = TRUE]
    /\ Goto(i, "set_playing")
    /\ UNCHANGED <<appVars, dialogs, initialized, current_file, is_playing, tmpFiles, uiPc, lastStop>>

\* self.is_playing = True
SetPlaying(i) ==
    /\ At(i, "set_playing")
    /\ is_playing' = TRUE
    /\ Goto(i, "done")
    /\ UNCHANGED <<appVars, dialogs, initialized, current_file, mixer, tmpFiles, uiPc, lastStop>>

\* except Exception as e: self.is_playing = False
ExceptClear(i) ==
    /\ At(i, "except")
    /\ is_playing' = FALSE
    /\ Goto(i, "on_error")
    /\ UNCHANGED <<appVars, dialogs, initialized, current_file, mixer, tmpFiles, uiPc, lastStop>>

\* on_error(str(e)): the lambda of _safe_play_preview, called by the worker
\* thread itself, opens the dialog.
OnError(i) ==
    /\ At(i, "on_error")
    /\ dialogs' = dialogs \cup {Dialog("Preview Error", <<"Preview download error", StatusText(500)>>, "worker")}
    /\ Goto(i, "failed")
    /\ UNCHANGED <<appVars, initialized, current_file, is_playing, mixer, tmpFiles, uiPc, lastStop>>

\* on_stop_preview -> stop(): returns at once when not initialized,
\* otherwise pygame.mixer.music.stop() ...
StopEnter ==
    /\ uiPc = "idle"
    /\ IF ~initialized
       THEN UNCHANGED <<mixer, uiPc>>
       ELSE /\ mixer' = [mixer EXCEPT !.busy = FALSE]
            /\ uiPc' = "stop_set"
    /\ UNCHANGED <<appVars, dialogs, initialized, current_file, is_playing, tmpFiles, players, lastStop>>

\* ... and then self.is_playing = False
StopFinish ==
    /\ uiPc = "stop_set"
    /\ is_playing' = FALSE
    /\ uiPc' = "idle"
    /\ lastStop' = Len(players)
    /\ UNCHANGED <<appVars, dialogs, initialized, current_file, mixer, tmpFiles, players>>

\* The clip plays to its end; no code observes it.
ClipEnds ==
    /\ mixer.busy
    /\ mixer' = [mixer EXCEPT !.busy = FALSE]
    /\ UNCHANGED <<appVars, dialogs, initialized, current_file, is_playing, tmpFiles, players, uiPc, lastStop>>

---------------------------------------------------------------------------
(* Specifications *)

\* PreviewPlayer.__init__, before any play or stop
PlayerIdle ==
    /\ initialized = FALSE
    /\ current_file = None
    /\ is_playing = FALSE
    /\ mixer = [ready |-> FALSE, loaded |-> None, busy |-> FALSE]
    /\ tmpFiles = {}
    /\ players = <<>>
    /\ uiPc = "idle"
    /\ lastStop = -1

\* The process after load_dotenv() and _build_content(), before the token
\* is requested.
AppStart ==
    /\ phase = "init"
    /\ token = None
    /\ current_artist = None
    /\ scroll = Tip
    /\ threads = {}
    /\ afterQueue = <<>>
    /\ dialogs = {}
    /\ callbackErrors = {}
    /\ getTokenCalls = 0
    /\ tokenPosts = 0
    /\ catalogGets = 0
    /\ searches = 0
    /\ loads = 0
    /\ lastAction = [kind |-> "none", gen |-> 0]
    /\ regionOwner = [kind |-> "none", gen |-> 0]
    /\ authFailedAt = -1

Init ==
    /\ CLIENT_ID \in CredentialValues
    /\ CLIENT_SECRET \in CredentialValues
    /\ AppStart
    /\ PlayerIdle

Next ==
    \/ AppInit
    \/ \E text \in EntryTexts : on_search(text)
    \/ \E i \in 1..(SearchLimit + 1) : OpenArtist(i)
    \/ \E t \in threads : WorkerFetch(t, Responses(t.kind))
    \/ \E t \in threads : WorkerLeaveExcept(t)
    \/ RunCallback

Spec == Init /\ [][Next]_vars

\* The application with a token, showing Adele's detail view with her top
\* tracks listed and no album: a state Spec reaches.
PlayerStart ==
    /\ phase = "running"
    /\ token = "t1"
    /\ current_artist = Adele
    /\ scroll = <<Header(Adele), Label(<<"">>, "default"), [Section("tracks", 1) EXCEPT !.list = populate_tracks(Take(TrackItems(TopTracksLimit + 1), TopTracksLimit))], [Section("albums", 1) EXCEPT !.list = populate_albums(<<>>)]>>
    /\ threads = {}
    /\ afterQueue = <<>>
    /\ dialogs = {}
    /\ callbackErrors = {}
    /\ getTokenCalls = 1
    /\ tokenPosts = 1
    /\ catalogGets = 3
    /\ searches = 1
    /\ loads = 1
    /\ lastAction = [kind |-> "load", gen |-> 1]
    /\ regionOwner = [kind |-> "load", gen |-> 1]
    /\ authFailedAt = -1

PlayerInit ==
    /\ CLIENT_ID = "set"
    /\ CLIENT_SECRET = "set"
    /\ PlayerStart
    /\ PlayerIdle

PlayerNext ==
    \/ \E url \in {"u1", "u2"} : safe_play_preview(url)
    \/ StopEnter
    \/ StopFinish
    \/ ClipEnds
    \/ \E i \in 1..Len(players) : EnsureInit(i)
    \/ \E i \in 1..Len(players) : MixerInit(i)
    \/ \E i \in 1..Len(players) : SetInitialized(i)
    \/ \E i \in 1..Len(players) : Download(i)
    \/ \E i \in 1..Len(players) : SaveTmp(i)
    \/ \E i \in 1..Len(players) : AssignCurrent(i)
    \/ \E i \in 1..Len(players) : MusicLoad(i)
    \/ \E i \in 1..Len(players) : MusicPlay(i)
    \/ \E i \in 1..Len(players) : SetPlaying(i)
    \/ \E i \in 1..Len(players) : ExceptClear(i)
    \/ \E i \in 1..Len(players) : OnError(i)

PlayerSpec == PlayerInit /\ [][PlayerNext]_vars

\* A search has been submitted with a token in hand and its worker has not
\* asked the catalog yet: a state Spec reaches.
RenderInit ==
    /\ CLIENT_ID = "set"
    /\ CLIENT_SECRET = "set"
    /\ phase = "running"
    /\ token = "t1"
    /\ current_artist = None
    /\ scroll = <<Label(<<"Searching...">>, "default")>>
    /\ threads = {SearchThread(1, <<"a">>)}
    /\ afterQueue = <<>>
    /\ dialogs = {}
    /\ callbackErrors = {}
    /\ getTokenCalls = 1
    /\ tokenPosts = 1
    /\ catalogGets = 0
    /\ searches = 1
    /\ loads = 0
    /\ lastAction = [kind |-> "search", gen |-> 1]
    /\ regionOwner = [kind |-> "search", gen |-> 1]
    /\ authFailedAt = -1
    /\ PlayerIdle

\* Every answer of at most SearchLimit artists of the pool
RenderResponses == {Ok(items) : items \in ArtistLists(SearchLimit)}

RenderNext ==
    \/ \E t \in threads : WorkerFetch(t, RenderResponses)
    \/ RunCallback

RenderSpec == RenderInit /\ [][RenderNext]_vars

---------------------------------------------------------------------------
(* Vocabulary of the claims *)

\* The callback the event loop is about to run, when this step runs one
RunsCallback == afterQueue # <<>> /\ afterQueue' = Tail(afterQueue)

\* The artists bound to the Open buttons of a region, in display order
OpensOf(region) ==
    LET rows == SelectSeq(region, LAMBDA wd : wd.w = "row") IN [i \in 1..Len(rows) |-> rows[i].opens]

HasSection(region, kind, gen) == \E i \in 1..Len(region) : IsSection(region[i], kind, gen)

\* The children of list frame (kind, gen) in a region that holds it
SectionList(region, kind, gen) == (CHOOSE wd \in {region[i] : i \in 1..Len(region)} : IsSection(wd, kind, gen)).list

IsLabel(wd, color) == wd.w = "label" /\ wd.color = color

HasLabel(children, color) == \E i \in 1..Len(children) : IsLabel(children[i], color)

HasLoading(children, kind) == \E i \in 1..Len(children) : children[i].w = "label" /\ children[i].text = LoadingText(kind)

\* A list frame in one of its final states: rows, the orange "none found"
\* label, or the red error label
Settled(children, kind) ==
    \/ Len(children) > 0 /\ \A i \in 1..Len(children) : children[i].w = (IF kind = "tracks" THEN "trackrow" ELSE "albumrow")
    \/ Len(children) = 1 /\ IsLabel(children[1], "orange")
    \/ Len(children) = 1 /\ IsLabel(children[1], "red")

\* The fetch of list frame (kind, gen) is over: its worker has answered and
\* its callback has run
FetchOver(kind, gen) ==
    /\ ~\E t \in threads : t.kind = kind /\ t.gen = gen /\ t.pc = "fetch"
    /\ ~\E i \in 1..Len(afterQueue) : afterQueue[i].kind = kind /\ afterQueue[i].gen = gen

Sibling(kind) == IF kind = "tracks" THEN "albums" ELSE "tracks"

---------------------------------------------------------------------------
(* Claims *)

\* C1: when play_from_url(url2) is issued before the worker of
\* play_from_url(url1) has finished and both downloads succeed, then once
\* both workers are done the clip loaded in the engine and current_file are
\* the second call's file, and the first call's file is still on disk.
C1_LastPlayWins ==
    \A j \in 2..Len(players) :
        (j = Len(players) /\ players[j].overlap /\ players[j].url # players[j - 1].url /\ players[j - 1].pc = "done" /\ players[j].pc = "done")
        => /\ mixer.loaded = TmpName(j)
           /\ current_file = TmpName(j)
           /\ \E f \in tmpFiles : f.name = TmpName(j - 1)

\* C1, the scenario: two overlapping plays have both completed
C1_BothPlaysDone ==
    Len(players) = 2 /\ players[2].overlap /\ players[2].url # players[1].url /\ players[1].pc = "done" /\ players[2].pc = "done"

\* C2: _load_artist sends no request for the artist itself and starts exactly
\* one top-tracks and one albums worker; once a section's fetch is over the
\* section is in a final state (rows, "none found" or the error label),
\* whatever the sibling is doing; a section's callback never changes the
\* sibling section.
C2_SectionsSettleIndependently ==
    /\ [][loads' = loads + 1 =>
            /\ catalogGets' = catalogGets
            /\ threads' \ threads = {FetchThread("tracks", loads', current_artist'.id), FetchThread("albums", loads', current_artist'.id)}]_vars
    /\ [][(RunsCallback /\ Head(afterQueue).kind # "search") =>
            LET cb == Head(afterQueue) IN
            HasSection(scroll, Sibling(cb.kind), cb.gen) =>
                /\ HasSection(scroll', Sibling(cb.kind), cb.gen)
                /\ SectionList(scroll', Sibling(cb.kind), cb.gen) = SectionList(scroll, Sibling(cb.kind), cb.gen)]_vars
    /\ [](\A i \in 1..Len(scroll) :
            (scroll[i].w = "section" /\ FetchOver(scroll[i].kind, scroll[i].gen)) => Settled(scroll[i].list, scroll[i].kind))

\* C3: when the callback of a failed fetch runs, no dialog is opened; the
\* search callback leaves the region holding the red error label and no
\* loading label; a top-tracks or albums callback leaves its list frame
\* holding the red error label and no loading label.
C3_FetchErrorShowsInlineLabel ==
    [][(RunsCallback /\ Head(afterQueue).cb \in {"search_error", "fetch_error"}) =>
        LET cb == Head(afterQueue) IN
        /\ dialogs' = dialogs
        /\ IF cb.kind = "search"
           THEN HasLabel(scroll', "red") /\ ~HasLabel(scroll', "default")
           ELSE HasSection(scroll, cb.kind, cb.gen) =>
                    /\ HasLabel(SectionList(scroll', cb.kind, cb.gen), "red")
                    /\ ~HasLoading(SectionList(scroll', cb.kind, cb.gen), cb.kind)]_vars

\* C4: a step of stop() taken while is_playing is false changes neither
\* initialized, current_file, is_playing nor the audio engine.
C4_StopWhenNotPlayingIsNoOp ==
    [][(~is_playing /\ (StopEnter \/ StopFinish)) =>
        (initialized' = initialized /\ current_file' = current_file /\ is_playing' = is_playing /\ mixer' = mixer)]_vars

\* C5: with CLIENT_ID or CLIENT_SECRET missing or empty, every get_token call
\* has failed with the configuration error and no POST; no token is cached,
\* no catalog request is sent and no worker is started.
C5_MissingCredentialsNoNetwork ==
    (CLIENT_ID \in {None, ""} \/ CLIENT_SECRET \in {None, ""}) =>
        /\ token = None
        /\ tokenPosts = 0
        /\ catalogGets = 0
        /\ threads = {}
        /\ afterQueue = <<>>
        /\ \A d \in dialogs : d.title = "Auth Error" => d.msg = <<"Missing CLIENT_ID or CLIENT_SECRET in .env">>
        /\ getTokenCalls > 0 => \E d \in dialogs : d.title = "Auth Error"

\* C5, the scenario: credentials missing, startup done and a later search
\* attempt has called get_token again
C5_MissingAtStartupAndSearch ==
    (CLIENT_ID \in {None, ""} \/ CLIENT_SECRET \in {None, ""}) /\ phase = "running" /\ getTokenCalls >= 2

\* What C6 says of one row: the Open button is bound to the artist, the
\* follower count is the artist's followers.total (0 when absent), the
\* genres shown are the first min(3, n) genres with ", " between them, or
\* "N/A" when there is none.
C6_RowShows(row, a) ==
    LET g == IF "genres" \in DOMAIN a THEN a.genres ELSE <<>>
        k == IF Len(g) < 3 THEN Len(g) ELSE 3
    IN
    /\ row.opens = a
    /\ row.followers = (IF "followers" \in DOMAIN a /\ "total" \in DOMAIN a.followers THEN a.followers.total ELSE 0)
    /\ IF k = 0
       THEN row.genres = <<"N/A">>
       ELSE /\ Len(row.genres) = 2 * k - 1
            /\ \A j \in 1..k : row.genres[2 * j - 1] = g[j]
            /\ \A j \in 1..(k - 1) : row.genres[2 * j] = ", "

\* C6: rendering a search response of n artists leaves exactly n selectable
\* rows, in the order of the response, each as C6_RowShows says; for n = 0
\* it leaves exactly the "No artists found." label, no row and no error label.
C6_RenderArtistChoices ==
    [][(RunsCallback /\ Head(afterQueue).cb = "render") =>
        LET items == Head(afterQueue).data
            rows == SelectSeq(scroll', LAMBDA wd : wd.w = "row")
        IN
        /\ Len(rows) = Len(items)
        /\ \A i \in 1..Len(items) : C6_RowShows(rows[i], items[i])
        /\ ~HasLabel(scroll', "red")
        /\ IF Len(items) = 0
           THEN scroll' = <<Label(<<"No artists found.">>, "orange")>>
           ELSE Len(scroll') = Len(items) + 1 /\ ~HasLabel(scroll', "orange")]_vars

\* C6, the scenario: a response of SearchLimit artists has been rendered and
\* an artist of four genres shows its first three
C6_FiveRowsRendered ==
    /\ afterQueue = <<>>
    /\ threads = {}
    /\ Len(OpensOf(scroll)) = SearchLimit
    /\ \E i \in 1..Len(scroll) : scroll[i].w = "row" /\ scroll[i].opens = Adele /\ scroll[i].genres = <<"pop", ", ", "soul", ", ", "uk">>

\* C7: every dialog was opened by the UI thread (the workers never touch a
\* widget in this model other than by scheduling a callback).
C7_OnlyUiThreadTouchesUi == \A d \in dialogs : d.thread = "ui"

\* C8: whenever a search worker's callback runs, the region becomes that
\* search's outcome (its artists, or its error) and nothing else, whether or
\* not that search is still the user's latest action.
C8_StaleSearchCallbackStillRenders ==
    [][(RunsCallback /\ Head(afterQueue).kind = "search") =>
        LET cb == Head(afterQueue) IN
        /\ regionOwner' = [kind |-> "search", gen |-> cb.gen]
        /\ \A i \in 1..Len(scroll') : scroll'[i].w # "section"
        /\ IF cb.cb = "render"
           THEN OpensOf(scroll') = cb.data
           ELSE scroll' = <<Label(cb.data, "red")>>]_vars

\* C8, the scenario: the user's latest action opened an artist, and the
\* region shows the outcome of a search instead of the detail view
C8_StaleResultShown ==
    /\ lastAction.kind = "load"
    /\ regionOwner.kind = "search"
    /\ \A i \in 1..Len(scroll) : scroll[i].w # "section"

\* C9: once stop() has returned on an initialized player, and as long as no
\* play_from_url has been issued since, is_playing is false and no clip is
\* playing.
C9_StopHaltsUntilNextPlay ==
    (lastStop >= 0 /\ Len(players) = lastStop) => (~is_playing /\ ~mixer.busy)

\* C10: while a token is cached it never changes and get_token is not
\* called; get_token is called only while no token is cached, by __init__ or
\* by an on_search call.
C10_TokenAcquiredOnce ==
    [][/\ token \notin {None, ""} => (token' = token /\ getTokenCalls' = getTokenCalls)
       /\ getTokenCalls' # getTokenCalls => (token \in {None, ""} /\ (phase = "init" \/ searches' = searches + 1))]_vars

\* C10, the scenario: the catalog has answered 401, the user has started a
\* search after that, and the token of the single get_token call is still held
C10_SearchAfterAuthFailure ==
    /\ token \notin {None, ""}
    /\ getTokenCalls = 1
    /\ authFailedAt >= 1
    /\ searches > authFailedAt
    /\ lastAction = [kind |-> "search", gen |-> searches]

===========================================================================
